---- MODULE Spec2Model ----
(***************************************************************************)
(* TOON format encoder and decoder (python-sdk/toon_format).               *)
(*                                                                         *)
(* Text is modelled as a sequence of one-character strings, so that        *)
(* strip, split, startswith, quoting and unescaping are computed on        *)
(* characters as the Python code computes them.  Values are tagged         *)
(* records:                                                                *)
(*   None  [t |-> "null"]            bool  [t |-> "bool",  v |-> TRUE]     *)
(*   int   [t |-> "int", v |-> 3]    float [t |-> "float", v |-> <<m, e>>] *)
(*   str   [t |-> "str", v |-> chars]                                      *)
(*   dict  [t |-> "dict", v |-> << <<key, value>>, ... >>] (insertion      *)
(*         order, unique keys)       list  [t |-> "list", v |-> <<...>>]   *)
(* A float <<m, e>> is m * 10^(-e) with no trailing zero in m when e > 0.  *)
(***************************************************************************)
EXTENDS Integers, Sequences, FiniteSets, TLC

VARIABLES data, toon, out, pc, unit

vars == <<data, toon, out, pc, unit>>

(***************************************************************************)
(* Values                                                                  *)
(***************************************************************************)
NullV == [t |-> "null"]

BoolV(b) == [t |-> "bool", v |-> b]

IntV(n) == [t |-> "int", v |-> n]

FloatV(m, e) == [t |-> "float", v |-> <<m, e>>]

StrV(s) == [t |-> "str", v |-> s]

DictV(pairs) == [t |-> "dict", v |-> pairs]

ListV(items) == [t |-> "list", v |-> items]

None == [t |-> "none"]

\* Outcome of a call: a returned value or a raised exception.
Ok(v) == [t |-> "ok", v |-> v]

\* TOONDecodeError; line is the 1-based line number the message carries,
\* 0 when the message carries none.
TOONDecodeError(line, msg) == [t |-> "TOONDecodeError", line |-> line, msg |-> msg]

NameError == [t |-> "NameError"]

AttributeError == [t |-> "AttributeError"]

TypeError == [t |-> "TypeError"]

IsPrimitive(v) == v.t \in {"null", "bool", "int", "float", "str"}

(***************************************************************************)
(* Python str helpers                                                      *)
(***************************************************************************)
Whitespace == {" ", "\t", "\n"}

DigitChars == <<"0", "1", "2", "3", "4", "5", "6", "7", "8", "9">>

IsDigit(c) == \E i \in 1..10 : DigitChars[i] = c

DigitVal(c) == (CHOOSE i \in 1..10 : DigitChars[i] = c) - 1

RECURSIVE LStrip(_)
LStrip(s) ==
  IF s # <<>> /\ s[1] \in Whitespace THEN LStrip(Tail(s)) ELSE s

RECURSIVE RStrip(_)
RStrip(s) ==
  IF s # <<>> /\ s[Len(s)] \in Whitespace
    THEN RStrip(SubSeq(s, 1, Len(s) - 1))
    ELSE s

\* str.strip()
Strip(s) == RStrip(LStrip(s))

\* s.startswith(c) and s.endswith(c) for a one-character c
StartsWith(s, c) == s # <<>> /\ s[1] = c

EndsWith(s, c) == s # <<>> /\ s[Len(s)] = c

\* c in s
Contains(s, c) == \E i \in 1..Len(s) : s[i] = c

\* s[1:-1]
Inner(s) == SubSeq(s, 2, Len(s) - 1)

\* index of the first c in s, 0 when there is none
RECURSIVE IndexOf(_, _, _)
IndexOf(s, c, i) ==
  IF i > Len(s) THEN 0
  ELSE IF s[i] = c THEN i
  ELSE IndexOf(s, c, i + 1)

\* s.split(c): every occurrence of c separates two items
RECURSIVE Split(_, _)
Split(s, c) ==
  LET i == IndexOf(s, c, 1) IN
  IF i = 0 THEN <<s>>
  ELSE <<SubSeq(s, 1, i - 1)>> \o Split(SubSeq(s, i + 1, Len(s)), c)

\* c.join(items)
RECURSIVE Join(_, _)
Join(items, c) ==
  IF items = <<>> THEN <<>>
  ELSE IF Len(items) = 1 THEN items[1]
  ELSE items[1] \o <<c>> \o Join(Tail(items), c)

\* s.replace(a + b, <<r>>): left to right, non-overlapping
RECURSIVE Replace2(_, _, _, _)
Replace2(s, a, b, r) ==
  IF Len(s) < 2 THEN s
  ELSE IF s[1] = a /\ s[2] = b
    THEN <<r>> \o Replace2(SubSeq(s, 3, Len(s)), a, b, r)
    ELSE <<s[1]>> \o Replace2(Tail(s), a, b, r)

RECURSIVE DigitsVal(_)
DigitsVal(s) ==
  IF s = <<>> THEN 0
  ELSE DigitsVal(SubSeq(s, 1, Len(s) - 1)) * 10 + DigitVal(s[Len(s)])

AllDigits(s) == \A i \in 1..Len(s) : IsDigit(s[i])

\* str(n) for an int n
RECURSIVE NatToStr(_)
NatToStr(n) ==
  IF n < 10 THEN <<DigitChars[n + 1]>>
  ELSE NatToStr(n \div 10) \o <<DigitChars[(n % 10) + 1]>>

IntToStr(n) == IF n < 0 THEN <<"-">> \o NatToStr(0 - n) ELSE NatToStr(n)

\* the text without its sign, and the sign
Unsigned(s) == IF StartsWith(s, "-") \/ StartsWith(s, "+") THEN Tail(s) ELSE s

Sign(s) == IF StartsWith(s, "-") THEN 0 - 1 ELSE 1

\* int(s) succeeds: optional sign, then one or more decimal digits
\* (no underscore separators are drawn in the model's texts)
IsIntLit(s) == Unsigned(s) # <<>> /\ AllDigits(Unsigned(s))

\* float(s) succeeds for a text that contains ".": optional sign, digits, ".",
\* digits, with a digit on at least one side (no exponent is drawn in the
\* model's texts)
IsFloatLit(s) ==
  LET u == Unsigned(s)
      i == IndexOf(u, ".", 1)
      ip == SubSeq(u, 1, i - 1)
      fp == SubSeq(u, i + 1, Len(u))
  IN i > 0 /\ AllDigits(ip) /\ AllDigits(fp) /\ Len(ip) + Len(fp) > 0

RECURSIVE NormFloat(_, _)
NormFloat(m, e) ==
  IF e > 0 /\ m % 10 = 0 THEN NormFloat(m \div 10, e - 1) ELSE <<m, e>>

FloatVal(s) ==
  LET u == Unsigned(s)
      i == IndexOf(u, ".", 1)
      ip == SubSeq(u, 1, i - 1)
      fp == SubSeq(u, i + 1, Len(u))
      n == NormFloat(DigitsVal(ip \o fp), Len(fp))
  IN FloatV(Sign(s) * n[1], n[2])

RECURSIVE ZeroPad(_, _)
ZeroPad(s, n) == IF Len(s) >= n THEN s ELSE ZeroPad(<<"0">> \o s, n)

\* str(x) for a float x = m * 10^(-e)
FloatToStr(m, e) ==
  LET a == IF m < 0 THEN 0 - m ELSE m
      d == ZeroPad(NatToStr(a), e + 1)
      ip == SubSeq(d, 1, Len(d) - e)
      fp == IF e = 0 THEN <<"0">> ELSE SubSeq(d, Len(d) - e + 1, Len(d))
  IN (IF m < 0 THEN <<"-">> ELSE <<>>) \o ip \o <<".">> \o fp

(***************************************************************************)
(* decoder.py: primitives and item splitting                               *)
(***************************************************************************)
\* TOONDecoder._parse_primitive
_parse_primitive(value0) ==
  LET value == Strip(value0) IN
  IF value = <<"n", "u", "l", "l">> THEN NullV
  ELSE IF value = <<"t", "r", "u", "e">> THEN BoolV(TRUE)
  ELSE IF value = <<"f", "a", "l", "s", "e">> THEN BoolV(FALSE)
  ELSE IF StartsWith(value, "\"") /\ EndsWith(value, "\"")
    THEN StrV(Replace2(Replace2(Inner(value), "\\", "\"", "\""), "\\", "\\", "\\"))
  ELSE IF Contains(value, ".")
    THEN (IF IsFloatLit(value) THEN FloatVal(value) ELSE StrV(value))
  ELSE IF IsIntLit(value) THEN IntV(Sign(value) * DigitsVal(Unsigned(value)))
  ELSE StrV(value)

\* TOONDecoder._split_array_items: the loop over the characters of content,
\* st = [items, current, depth, in_quotes, escape_next]
RECURSIVE SplitLoop(_, _, _)
SplitLoop(content, i, st) ==
  IF i > Len(content) THEN st
  ELSE
    LET char == content[i]
        push == [st EXCEPT !.current = Append(st.current, char)]
    IN
    IF st.escape_next
      THEN SplitLoop(content, i + 1, [push EXCEPT !.escape_next = FALSE])
    ELSE IF char = "\\"
      THEN SplitLoop(content, i + 1, [push EXCEPT !.escape_next = TRUE])
    ELSE IF char = "\""
      THEN SplitLoop(content, i + 1, [push EXCEPT !.in_quotes = ~st.in_quotes])
    ELSE IF ~st.in_quotes /\ char \in {"[", "{"}
      THEN SplitLoop(content, i + 1, [push EXCEPT !.depth = st.depth + 1])
    ELSE IF ~st.in_quotes /\ char \in {"]", "}"}
      THEN SplitLoop(content, i + 1, [push EXCEPT !.depth = st.depth - 1])
    ELSE IF ~st.in_quotes /\ char = "," /\ st.depth = 0
      THEN SplitLoop(content, i + 1,
             [st EXCEPT !.items = Append(st.items, st.current), !.current = <<>>])
    ELSE SplitLoop(content, i + 1, push)

\* variant: split at every comma, whatever the quotes and the nesting
_split_array_items_naive(content) ==
  LET p == Split(content, ",")
  IN IF p[Len(p)] = <<>> THEN SubSeq(p, 1, Len(p) - 1) ELSE p

_split_array_items(content) ==
  LET st == SplitLoop(content, 1,
              [items |-> <<>>, current |-> <<>>, depth |-> 0,
               in_quotes |-> FALSE, escape_next |-> FALSE])
  IN IF st.current # <<>> THEN Append(st.items, st.current) ELSE st.items

(***************************************************************************)
(* decoder.py: the line parser.  A parsing method returns Ret(value, cur),  *)
(* cur being the 0-based index of the last line it consumed, or the        *)
(* exception it raises.                                                    *)
(***************************************************************************)
Ret(v, cur) == [t |-> "ok", v |-> v, cur |-> cur]

\* d[key] = value on a dict kept as a sequence of <<key, value>> pairs: an
\* existing key keeps its position, a new key goes last
DictSet(pairs, key, value) ==
  IF \E i \in 1..Len(pairs) : pairs[i][1] = key
    THEN [i \in 1..Len(pairs) |->
            IF pairs[i][1] = key THEN <<key, value>> ELSE pairs[i]]
    ELSE Append(pairs, <<key, value>>)

\* re.match(r'\[(\d+)\]\{([^}]+)\}', first_value): the match, with group 1
\* (digits) and group 2 (the text up to the first "}")
TabularMatch(first_value) ==
  LET rb == IndexOf(first_value, "]", 1)
      digits == SubSeq(first_value, 2, rb - 1)
      cb == IndexOf(first_value, "}", rb + 2)
      ok == /\ StartsWith(first_value, "[")
            /\ rb > 2
            /\ AllDigits(digits)
            /\ Len(first_value) > rb
            /\ first_value[rb + 1] = "{"
            /\ cb > rb + 2
  IN [matched |-> ok,
      group1 |-> IF ok THEN digits ELSE <<>>,
      group2 |-> IF ok THEN SubSeq(first_value, rb + 2, cb - 1) ELSE <<>>]

\* the row dict of _decode_tabular_array: zip(fields, values), left to right
RECURSIVE RowDict(_, _, _, _)
RowDict(fields, values, i, row) ==
  IF i > Len(fields) \/ i > Len(values) THEN row
  ELSE RowDict(fields, values, i + 1,
               DictSet(row, fields[i], _parse_primitive(Strip(values[i]))))

\* TabularLoop without the check of len(values) against len(fields)
RECURSIVE TabularLoopNoArity(_, _, _, _, _)
TabularLoopNoArity(lines, line_idx, remaining, fields, result) ==
  IF remaining = 0 THEN Ret(ListV(result), line_idx - 1)
  ELSE IF line_idx >= Len(lines)
    THEN TOONDecodeError(0, "Tabular array: expected rows, got fewer")
  ELSE
    LET line == Strip(lines[line_idx + 1]) IN
    IF ~StartsWith(line, "[") \/ ~EndsWith(line, "]")
      THEN TOONDecodeError(line_idx + 1, "Expected array row")
    ELSE
      LET values == _split_array_items(Strip(Inner(line))) IN
      TabularLoopNoArity(lines, line_idx + 1, remaining - 1, fields,
                         Append(result, DictV(RowDict(fields, values, 1, <<>>))))

\* TOONDecoder._decode_tabular_array: the loop over range(count)
RECURSIVE TabularLoop(_, _, _, _, _)
TabularLoop(lines, line_idx, remaining, fields, result) ==
  IF remaining = 0 THEN Ret(ListV(result), line_idx - 1)
  ELSE IF line_idx >= Len(lines)
    THEN TOONDecodeError(0, "Tabular array: expected rows, got fewer")
  ELSE
    LET line == Strip(lines[line_idx + 1]) IN
    IF ~StartsWith(line, "[") \/ ~EndsWith(line, "]")
      THEN TOONDecodeError(line_idx + 1, "Expected array row")
    ELSE
      LET values == _split_array_items(Strip(Inner(line))) IN
      IF Len(values) # Len(fields)
        THEN TOONDecodeError(line_idx + 1, "Expected values")
        ELSE TabularLoop(lines, line_idx + 1, remaining - 1, fields,
                         Append(result, DictV(RowDict(fields, values, 1, <<>>))))

_decode_tabular_array(lines, start_line, match) ==
  LET count == DigitsVal(match.group1)
      parts == Split(match.group2, ",")
      fields == [i \in 1..Len(parts) |-> Strip(parts[i])]
  IN TabularLoop(lines, start_line + 1, count, fields, <<>>)

RECURSIVE ObjectLoop(_, _, _)
RECURSIVE _decode_array_inline(_, _, _)
RECURSIVE MultilineLoop(_, _, _)

\* TOONDecoder._decode_object
\* variant: the cursor is left on the line before the closing brace
_decode_object_stay(lines, start_line) ==
  LET r == ObjectLoop(lines, start_line + 1, <<>>)
  IN IF r.t = "ok" THEN Ret(r.v, r.cur - 1) ELSE r

_decode_object(lines, start_line) == ObjectLoop(lines, start_line + 1, <<>>)

\* TOONDecoder._decode_array_multiline
_decode_array_multiline(lines, start_line) == MultilineLoop(lines, start_line + 1, <<>>)

\* the while loop of _decode_object at self.current_line = current_line
ObjectLoop(lines, current_line, result) ==
  IF current_line >= Len(lines)
    THEN TOONDecodeError(0, "Unexpected end of object")
  ELSE
    LET content == Strip(lines[current_line + 1]) IN
    IF content = <<"}">> THEN Ret(DictV(result), current_line)
    ELSE IF ~Contains(content, ":")
      THEN TOONDecodeError(current_line + 1, "Expected key-value pair")
    ELSE
      LET i == IndexOf(content, ":", 1)
          key0 == Strip(SubSeq(content, 1, i - 1))
          value_part == Strip(SubSeq(content, i + 1, Len(content)))
          key == IF StartsWith(key0, "\"") /\ EndsWith(key0, "\"")
                   THEN Inner(key0) ELSE key0
      IN
      IF value_part = <<"{">>
        THEN LET r == _decode_object(lines, current_line) IN
             IF r.t # "ok" THEN r
             ELSE ObjectLoop(lines, r.cur + 1, DictSet(result, key, r.v))
      ELSE IF StartsWith(value_part, "[")
        THEN LET r == _decode_array_inline(lines, current_line, value_part) IN
             IF r.t # "ok" THEN r
             ELSE ObjectLoop(lines, r.cur + 1, DictSet(result, key, r.v))
      ELSE ObjectLoop(lines, current_line + 1,
                      DictSet(result, key, _parse_primitive(value_part)))

\* TOONDecoder._decode_array_inline
_decode_array_inline(lines, start_line, first_value) ==
  LET match == TabularMatch(first_value) IN
  IF match.matched THEN _decode_tabular_array(lines, start_line, match)
  ELSE IF StartsWith(first_value, "[") /\ EndsWith(first_value, "]")
    THEN LET content == Strip(Inner(first_value))
             items == _split_array_items(content)
         IN IF content = <<>> THEN Ret(ListV(<<>>), start_line)
            ELSE Ret(ListV([i \in 1..Len(items) |-> _parse_primitive(Strip(items[i]))]),
                     start_line)
  ELSE _decode_array_multiline(lines, start_line)

\* the while loop of _decode_array_multiline at line_idx; a nested object is
\* decoded by _decode_object, which moves self.current_line, while line_idx
\* is advanced by one only
MultilineLoop(lines, line_idx, result) ==
  IF line_idx >= Len(lines)
    THEN TOONDecodeError(0, "Unexpected end of array")
  ELSE
    LET content == Strip(lines[line_idx + 1]) IN
    IF content = <<"]">> THEN Ret(ListV(result), line_idx)
    ELSE IF content = <<"{">>
      THEN LET r == _decode_object(lines, line_idx) IN
           IF r.t # "ok" THEN r
           ELSE MultilineLoop(lines, line_idx + 1, Append(result, r.v))
    ELSE IF StartsWith(content, "[")
      THEN LET r == _decode_array_inline(lines, line_idx, content) IN
           IF r.t # "ok" THEN r
           ELSE MultilineLoop(lines, r.cur + 1, Append(result, r.v))
    ELSE
      LET c == IF EndsWith(content, ",")
                 THEN Strip(SubSeq(content, 1, Len(content) - 1))
                 ELSE content
      IN MultilineLoop(lines, line_idx + 1, Append(result, _parse_primitive(c)))

\* TOONDecoder.__init__: self.lines
Lines(toon_string) == Split(Strip(toon_string), "\n")

\* self._decode_array(0, 0): TOONDecoder defines no _decode_array, the
\* attribute lookup raises AttributeError
_decode_array(lines) == AttributeError

\* decode with the object root accepted by prefix: first_line.startswith('{')
decode_root_prefix(toon_string) ==
  LET lines == Lines(toon_string) IN
  IF lines = <<>> THEN TOONDecodeError(0, "Empty TOON string")
  ELSE
    LET first_line == Strip(lines[1]) IN
    IF StartsWith(first_line, "[") THEN _decode_array(lines)
    ELSE IF StartsWith(first_line, "{") THEN _decode_object(lines, 0)
    ELSE TOONDecodeError(0, "Invalid TOON format")

\* decode(toon_string): TOONDecoder(toon_string).decode()
decode(toon_string) ==
  LET lines == Lines(toon_string) IN
  IF lines = <<>> THEN TOONDecodeError(0, "Empty TOON string")
  ELSE
    LET first_line == Strip(lines[1]) IN
    IF StartsWith(first_line, "[") THEN _decode_array(lines)
    ELSE IF first_line = <<"{">> THEN _decode_object(lines, 0)
    ELSE TOONDecodeError(0, "Invalid TOON format")

(***************************************************************************)
(* encoder.py.  A function returns Ok(text) or the exception it raises.    *)
(***************************************************************************)
special_chars == {",", ":", "[", "]", "{", "}", "\n", "\t"}

\* needs_quoting
needs_quoting(s) ==
  \/ s = <<>>
  \/ \E i \in 1..Len(s) : s[i] \in special_chars
  \/ s[1] \in Whitespace
  \/ s[Len(s)] \in Whitespace

\* encode for a str: f'"{data}"' when it needs quoting, else data
EncodeStr(s) == IF needs_quoting(s) THEN <<"\"">> \o s \o <<"\"">> ELSE s

\* '  ' * indent
RECURSIVE IndentStr(_)
IndentStr(indent) == IF indent <= 0 THEN <<>> ELSE <<" ", " ">> \o IndentStr(indent - 1)

\* list(obj.keys()), set(obj.keys()) and obj[k]
Keys(obj) == [i \in 1..Len(obj.v) |-> obj.v[i][1]]

KeySet(obj) == {obj.v[i][1] : i \in 1..Len(obj.v)}

Lookup(obj, k) == obj.v[CHOOSE i \in 1..Len(obj.v) : obj.v[i][1] = k][2]

\* is_tabular with the length test len(arr) < 1
is_tabular_min1(arr) ==
  /\ Len(arr) >= 1
  /\ \A i \in 1..Len(arr) : arr[i].t = "dict"
  /\ \A i \in 1..Len(arr) : KeySet(arr[i]) = KeySet(arr[1])

\* is_tabular
is_tabular(arr) ==
  /\ Len(arr) >= 2
  /\ \A i \in 1..Len(arr) : arr[i].t = "dict"
  /\ \A i \in 1..Len(arr) : KeySet(arr[i]) = KeySet(arr[1])

\* the first exception among a list of outcomes, or Ok(their texts)
FirstError(rs) ==
  IF \E i \in 1..Len(rs) : rs[i].t # "ok"
    THEN rs[CHOOSE i \in 1..Len(rs) :
              rs[i].t # "ok" /\ \A j \in 1..(i - 1) : rs[j].t = "ok"]
    ELSE Ok([i \in 1..Len(rs) |-> rs[i].v])

RECURSIVE encode(_, _)
RECURSIVE encode_dict(_, _)

\* the call encode_array(data, indent): encoder.py defines no encode_array,
\* the name lookup raises NameError
encode_array(arr, indent) == NameError

\* encode_tabular_array with each row taken in the item's own key order
\* (item.values())
encode_tabular_array_own_order(key, arr, indent) ==
  LET first_keys == Keys(arr[1])
      header == IndentStr(indent) \o key \o <<"[">> \o IntToStr(Len(arr))
                  \o <<"]", "{">> \o Join(first_keys, ",") \o <<"}", ":">>
      Row(item) ==
        LET values == FirstError([j \in 1..Len(item.v) |-> encode(item.v[j][2], 0)])
        IN IF values.t # "ok" THEN values
           ELSE Ok(IndentStr(indent) \o <<" ", " ">> \o Join(values.v, ","))
      rows == FirstError([i \in 1..Len(arr) |-> Row(arr[i])])
  IN IF rows.t # "ok" THEN rows
     ELSE Ok(Join(<<header>> \o rows.v, "\n"))

\* encode_tabular_array
encode_tabular_array(key, arr, indent) ==
  LET first_keys == Keys(arr[1])
      header == IndentStr(indent) \o key \o <<"[">> \o IntToStr(Len(arr))
                  \o <<"]", "{">> \o Join(first_keys, ",") \o <<"}", ":">>
      Row(item) ==
        LET values == FirstError([j \in 1..Len(first_keys) |->
                                    encode(Lookup(item, first_keys[j]), 0)])
        IN IF values.t # "ok" THEN values
           ELSE Ok(IndentStr(indent) \o <<" ", " ">> \o Join(values.v, ","))
      rows == FirstError([i \in 1..Len(arr) |-> Row(arr[i])])
  IN IF rows.t # "ok" THEN rows
     ELSE Ok(Join(<<header>> \o rows.v, "\n"))

\* encode_simple_array
encode_simple_array(key, arr, indent) ==
  LET head == IndentStr(indent) \o key \o <<"[">> \o IntToStr(Len(arr)) \o <<"]", ":">>
  IN
  IF \A i \in 1..Len(arr) : IsPrimitive(arr[i])
    THEN LET values == FirstError([i \in 1..Len(arr) |-> encode(arr[i], 0)])
         IN IF values.t # "ok" THEN values
            ELSE Ok(head \o <<" ">> \o Join(values.v, ","))
    ELSE LET encoded == FirstError([i \in 1..Len(arr) |-> encode(arr[i], indent + 1)])
             Block(e) == IF Contains(e, "\n") THEN e
                         ELSE IndentStr(indent) \o <<" ", " ">> \o e
         IN IF encoded.t # "ok" THEN encoded
            ELSE Ok(Join(<<head>> \o [i \in 1..Len(encoded.v) |-> Block(encoded.v[i])],
                         "\n"))

\* the lines encode_dict appends for one item of obj.items()
EncodeMember(key, value, indent) ==
  IF value.t = "dict"
    THEN LET nested == encode_dict(value, indent + 1) IN
         IF nested.t # "ok" THEN nested
         ELSE Ok(<<IndentStr(indent) \o key \o <<":">>, nested.v>>)
  ELSE IF value.t = "list"
    THEN LET a == IF is_tabular(value.v)
                    THEN encode_tabular_array(key, value.v, indent)
                    ELSE encode_simple_array(key, value.v, indent)
         IN IF a.t # "ok" THEN a ELSE Ok(<<a.v>>)
  ELSE LET value_str == encode(value, indent) IN
       IF value_str.t # "ok" THEN value_str
       ELSE Ok(<<IndentStr(indent) \o key \o <<":", " ">> \o value_str.v>>)

\* encode_dict
encode_dict(obj, indent) ==
  LET members == FirstError([i \in 1..Len(obj.v) |->
                               EncodeMember(obj.v[i][1], obj.v[i][2], indent)])
      Flatten[i \in 0..Len(obj.v)] ==
        IF i = 0 THEN <<>> ELSE Flatten[i - 1] \o members.v[i]
  IN IF members.t # "ok" THEN members
     ELSE Ok(Join(Flatten[Len(obj.v)], "\n"))

\* encode
encode(value, indent) ==
  IF value.t = "null" THEN Ok(<<"n", "u", "l", "l">>)
  ELSE IF value.t = "bool"
    THEN Ok(IF value.v THEN <<"t", "r", "u", "e">> ELSE <<"f", "a", "l", "s", "e">>)
  ELSE IF value.t = "int" THEN Ok(IntToStr(value.v))
  ELSE IF value.t = "float" THEN Ok(FloatToStr(value.v[1], value.v[2]))
  ELSE IF value.t = "str" THEN Ok(EncodeStr(value.v))
  ELSE IF value.t = "dict" THEN encode_dict(value, indent)
  ELSE IF value.t = "list" THEN encode_array(value.v, indent)
  ELSE TypeError

(***************************************************************************)
(* Inputs.  A call is drawn either with a value to encode or with a text   *)
(* to decode; texts are lines of a small library joined by newlines.       *)
(***************************************************************************)
MaxStrLen == 3

MaxArrLen == 3

MaxRootLines == 2

MaxBodyLines == 5

MaxMemberLines == 4

MaxIndent == 2

MaxContentLen == 4

SeqsUpTo(S, n) == UNION {[1..k -> S] : k \in 0..n}

StrAlphabet == {"a", " ", ",", ":", "\\", "\"", "\n", "{"}

Strings == SeqsUpTo(StrAlphabet, MaxStrLen)

Primitives ==
  {NullV, BoolV(TRUE), BoolV(FALSE), IntV(0), IntV(0 - 3), IntV(42),
   FloatV(314, 2), FloatV(1, 0)}

kX == <<"x">>

kY == <<"y">>

kUsers == <<"u", "s", "e", "r", "s">>

\* elements of the arrays: primitives, objects over the keys x and y in both
\* insertion orders, an object with a divergent key set, an empty object and
\* a nested list
Elems ==
  {IntV(1), StrV(<<"a">>),
   DictV(<< <<kX, IntV(1)>>, <<kY, StrV(<<"b">>)>> >>),
   DictV(<< <<kY, IntV(2)>>, <<kX, IntV(3)>> >>),
   DictV(<< <<kX, IntV(4)>> >>),
   DictV(<<>>),
   ListV(<<IntV(1)>>)}

Arrays == SeqsUpTo(Elems, MaxArrLen)

\* the value of tests/test_decoder.py test_round_trip, shortened
Sample ==
  DictV(<< <<<<"n", "a", "m", "e">>, StrV(<<"J", "o", "h", "n", " ", "D", "o", "e">>)>>,
           <<<<"a", "g", "e">>, IntV(30)>>,
           <<<<"o", "k">>, BoolV(TRUE)>>,
           <<<<"s">>, FloatV(955, 1)>>,
           <<<<"t">>, ListV(<<StrV(<<"p">>), StrV(<<"d">>)>>)>>,
           <<<<"m">>, DictV(<< <<<<"c">>, StrV(<<"z">>)>> >>)>> >>)

\* {"users": arr} and {"o": {"users": arr}}
Users(arr) == DictV(<< <<kUsers, ListV(arr)>> >>)

Nested(arr) == DictV(<< <<<<"o">>, Users(arr)>> >>)

Values ==
  {StrV(s) : s \in Strings} \cup Primitives \cup {Sample}
    \cup {Users(arr) : arr \in Arrays} \cup {Nested(arr) : arr \in Arrays}

RootLib ==
  {<<>>,
   <<" ">>,
   <<"{">>,
   <<" ", "{">>,
   <<"}">>,
   <<"[">>,
   <<"[", "1", ",", "2", "]">>,
   <<"n", "v">>,
   <<"{", "x">>,
   <<"a", ":", " ", "1">>}

ObjLib ==
  {<<"a", ":", " ", "{">>,
   <<"a", ":", " ", "[">>,
   <<"{">>,
   <<"}">>,
   <<"]">>,
   <<" ", " ", "b", ":", " ", "1">>,
   <<"1", ",">>}

MemberLib ==
  {<<"u", ":", " ", "[", "2", "]", "{", "i", ",", "n", "}">>,
   <<"u", ":", " ", "[", "0", "]", "{", "i", "}">>,
   <<"[", "1", ",", " ", "A", "]">>,
   <<"[", "B", ",", "2", "]">>,
   <<"[", "3", "]">>,
   <<"b", ":", " ", "x">>,
   <<"}">>,
   <<"e", ":", " ", "{", "}">>,
   <<"e", ":", " ", "[", "]">>}

\* the second argument of encode
Indents == 0..MaxIndent

TextOf(lines) == Join(lines, "\n")

RootTexts == {TextOf(ls) : ls \in SeqsUpTo(RootLib, MaxRootLines)}

ObjTexts == {TextOf(<<<<"{">>>> \o ls) : ls \in SeqsUpTo(ObjLib, MaxBodyLines)}

MemberTexts == {TextOf(<<<<"{">>>> \o ls) : ls \in SeqsUpTo(MemberLib, MaxMemberLines)}

Texts == RootTexts \cup ObjTexts \cup MemberTexts

\* the characters _split_array_items tells apart
SplitAlphabet == {"a", ",", "\"", "\\", "[", "]"}

\* the content of an inline array or of a tabular row
Contents == SeqsUpTo(SplitAlphabet, MaxContentLen)

(***************************************************************************)
(* The calls                                                               *)
(***************************************************************************)
Init ==
  /\ out = None
  /\ \/ data \in Values /\ toon = None /\ pc = "value" /\ unit \in Indents
     \/ /\ data = None
        /\ toon \in {Ok(text) : text \in Texts}
        /\ pc = "text"
        /\ unit = 0
     \/ /\ data = None
        /\ toon \in {Ok(content) : content \in Contents}
        /\ pc = "content"
        /\ unit = 0

\* toon = encode(data, unit)
EncodeCall ==
  /\ pc = "value"
  /\ toon' = encode(data, unit)
  /\ pc' = IF toon'.t = "ok" THEN "text" ELSE "raised"
  /\ UNCHANGED <<data, out, unit>>

\* out = decode(toon)
DecodeCall ==
  /\ pc = "text"
  /\ out' = decode(toon.v)
  /\ pc' = "decoded"
  /\ UNCHANGED <<data, toon, unit>>

\* out = TOONDecoder._parse_primitive(toon) on the token encode made of a
\* primitive
ParsePrimitiveCall ==
  /\ pc = "text"
  /\ IsPrimitive(data)
  /\ out' = Ok(_parse_primitive(toon.v))
  /\ pc' = "parsed"
  /\ UNCHANGED <<data, toon, unit>>

\* out = TOONDecoder._split_array_items(toon)
SplitCall ==
  /\ pc = "content"
  /\ out' = Ok(_split_array_items(toon.v))
  /\ pc' = "split"
  /\ UNCHANGED <<data, toon, unit>>

Next == EncodeCall \/ DecodeCall \/ ParsePrimitiveCall \/ SplitCall

Spec == Init /\ [][Next]_vars

(***************************************************************************)
(* Properties                                                              *)
(***************************************************************************)
\* the lines of the text as written, and the first of them that is not blank
\* (without surrounding whitespace); empty when every line is blank
RawLines(text) == Split(text, "\n")

FirstNonBlank(text) ==
  LET ls == RawLines(text)
      nb == {i \in 1..Len(ls) : Strip(ls[i]) # <<>>}
  IN IF nb = {} THEN <<>>
     ELSE Strip(ls[CHOOSE i \in nb : \A j \in nb : i <= j])

\* C3: decode raises TOONDecodeError, and returns no value, whenever the
\* first non-blank line of the text is neither exactly "{" nor starts with
\* "[" (the empty text included).
C3_RootShapeRejected ==
  (pc = "decoded"
     /\ FirstNonBlank(toon.v) # <<"{">>
     /\ ~StartsWith(FirstNonBlank(toon.v), "["))
    => out.t = "TOONDecodeError"

\* decode("nv") was called and raised TOONDecodeError
C3_Witness ==
  /\ pc = "decoded"
  /\ toon.v = <<"n", "v">>
  /\ out.t = "TOONDecodeError"

\* The structures the grammar leaves open at the end of an object-rooted
\* text, innermost last.  In an object, "}" closes it, a member "key: {"
\* opens an object and a member "key: [" opens a multi-line array; in a
\* multi-line array, "]" closes it, a line "{" opens an object and a line "["
\* opens an array; every other line opens and closes nothing.  The scan stops
\* when the root closes.
RECURSIVE OpenStack(_, _, _)
OpenStack(ls, i, stack) ==
  IF i > Len(ls) \/ stack = <<>> THEN stack
  ELSE
    LET c == Strip(ls[i])
        colon == IndexOf(c, ":", 1)
        vp == IF colon = 0 THEN <<>> ELSE Strip(SubSeq(c, colon + 1, Len(c)))
        pop == SubSeq(stack, 1, Len(stack) - 1)
    IN
    IF stack[Len(stack)] = "object"
      THEN IF c = <<"}">> THEN OpenStack(ls, i + 1, pop)
           ELSE IF vp = <<"{">> THEN OpenStack(ls, i + 1, Append(stack, "object"))
           ELSE IF vp = <<"[">> THEN OpenStack(ls, i + 1, Append(stack, "array"))
           ELSE OpenStack(ls, i + 1, stack)
      ELSE IF c = <<"]">> THEN OpenStack(ls, i + 1, pop)
           ELSE IF c = <<"{">> THEN OpenStack(ls, i + 1, Append(stack, "object"))
           ELSE IF c = <<"[">> THEN OpenStack(ls, i + 1, Append(stack, "array"))
           ELSE OpenStack(ls, i + 1, stack)

ObjectRooted(text) == FirstNonBlank(text) = <<"{">>

\* the text ends while an object or a multi-line array is still open
Unterminated(text) ==
  /\ ObjectRooted(text)
  /\ OpenStack(Lines(text), 2, <<"object">>) # <<>>

\* C4: when an object-rooted text ends before the closing "}" of an open
\* object or the closing "]" of an open multi-line array, at any depth,
\* decode raises TOONDecodeError and returns nothing.
C4_UnterminatedRejected ==
  (pc = "decoded" /\ Unterminated(toon.v)) => out.t = "TOONDecodeError"

\* C5: for a text whose first non-blank line starts with "[", decode returns
\* an array or raises TOONDecodeError, and raises nothing else.
C5_ArrayRootDecodes ==
  (pc = "decoded" /\ StartsWith(FirstNonBlank(toon.v), "["))
    => \/ out.t = "ok" /\ out.v.t = "list"
       \/ out.t = "TOONDecodeError"

\* The tabular headers of the member library, with the count and the
\* fields each declares.
Header2 == <<"u", ":", " ", "[", "2", "]", "{", "i", ",", "n", "}">>

Header0 == <<"u", ":", " ", "[", "0", "]", "{", "i", "}">>

kU == <<"u">>

HeaderAt2(text) == Len(Lines(text)) >= 2 /\ Lines(text)[2] \in {Header2, Header0}

HdrCount(text) == IF Lines(text)[2] = Header2 THEN 2 ELSE 0

HdrFields(text) == IF Lines(text)[2] = Header2 THEN <<<<"i">>, <<"n">>>> ELSE <<<<"i">>>>

IsRow(line) == StartsWith(Strip(line), "[") /\ EndsWith(Strip(line), "]")

RowValues(line) == _split_array_items(Strip(Inner(Strip(line))))

\* the count lines after the header exist, are rows and have one value per
\* field
RowsGood(text) ==
  LET ls == Lines(text) IN
  /\ Len(ls) >= 2 + HdrCount(text)
  /\ \A i \in 3..(2 + HdrCount(text)) :
       IsRow(ls[i]) /\ Len(RowValues(ls[i])) = Len(HdrFields(text))

\* one object per row, field j paired with value j
ExpectedRows(text) ==
  LET ls == Lines(text)
      f == HdrFields(text)
  IN ListV([r \in 1..HdrCount(text) |->
              DictV([j \in 1..Len(f) |->
                       <<f[j], _parse_primitive(RowValues(ls[2 + r])[j])>>])])

\* C9: a member whose value is a tabular header [count]{f1,...,fk} takes
\* exactly the next count lines as rows and yields one object per row, field
\* j paired with the row's value j parsed as a primitive; decode raises
\* TOONDecodeError when fewer than count lines follow, when a row is not
\* bracketed, or when a row does not have k values.  (A row's values are the
\* items _split_array_items gives for the text between its brackets.)
C9_TabularRows ==
  (pc = "decoded" /\ data = None /\ HeaderAt2(toon.v)) =>
    LET ls == Lines(toon.v)
        after == 3 + HdrCount(toon.v)
    IN
    /\ ~RowsGood(toon.v) => out.t = "TOONDecodeError"
    /\ (RowsGood(toon.v) /\ Len(ls) >= after /\ ls[after] = <<"}">>)
         => out = Ret(DictV(<< <<kU, ExpectedRows(toon.v)>> >>), after - 1)
    /\ (RowsGood(toon.v) /\ out.t = "ok"
          /\ \A i \in after..out.cur : ls[i] \notin {Header2, Header0})
         => out.v.v[1] = <<kU, ExpectedRows(toon.v)>>

\* a header declaring 2 rows was decoded into 2 objects
C9_Witness ==
  /\ pc = "decoded"
  /\ data = None
  /\ HeaderAt2(toon.v)
  /\ HdrCount(toon.v) = 2
  /\ out.t = "ok"
  /\ out.v.v[1] = <<kU, ExpectedRows(toon.v)>>
  /\ Len(out.v.v[1][2].v) = 2

\* the members "e: {}" and "e: []" of the member library
EmptyObjMember == <<"e", ":", " ", "{", "}">>

EmptyArrMember == <<"e", ":", " ", "[", "]">>

\* the last line before the root's closing "}" that is one of them, 0 when
\* there is none
LastEmptyMember(text, cur) ==
  LET ls == Lines(text)
      idx == {i \in 1..cur : ls[i] \in {EmptyObjMember, EmptyArrMember}}
  IN IF idx = {} THEN 0 ELSE CHOOSE i \in idx : \A j \in idx : j <= i

\* C10: a member written "key: {}" decodes to an empty object for that key,
\* and a member written "key: []" to an empty array.
C10_EmptyStructures ==
  (pc = "decoded" /\ data = None /\ out.t = "ok"
     /\ LastEmptyMember(toon.v, out.cur) > 0)
    => Lookup(out.v, <<"e">>) =
         IF Lines(toon.v)[LastEmptyMember(toon.v, out.cur)] = EmptyObjMember
           THEN DictV(<<>>)
           ELSE ListV(<<>>)

\* Python equality of two values: dicts compare by key and value, whatever
\* the insertion order
RECURSIVE PyEq(_, _)
PyEq(a, b) ==
  IF a.t # b.t THEN FALSE
  ELSE IF a.t = "dict"
    THEN /\ KeySet(a) = KeySet(b)
         /\ \A k \in KeySet(a) : PyEq(Lookup(a, k), Lookup(b, k))
  ELSE IF a.t = "list"
    THEN /\ Len(a.v) = Len(b.v)
         /\ \A i \in 1..Len(a.v) : PyEq(a.v[i], b.v[i])
  ELSE a = b

\* an array of 2 or more objects with equal key sets
TabularEligible(arr) ==
  /\ Len(arr) >= 2
  /\ \A i \in 1..Len(arr) : arr[i].t = "dict"
  /\ \A i \in 1..Len(arr) :
       {arr[i].v[j][1] : j \in 1..Len(arr[i].v)}
         = {arr[1].v[j][1] : j \in 1..Len(arr[1].v)}

RECURSIVE HasTabular(_)
HasTabular(v) ==
  IF v.t = "list"
    THEN TabularEligible(v.v) \/ \E i \in 1..Len(v.v) : HasTabular(v.v[i])
  ELSE IF v.t = "dict"
    THEN \E i \in 1..Len(v.v) : HasTabular(v.v[i][2])
  ELSE FALSE

\* C1: for an object v that contains no tabular-eligible array,
\* decode(encode(v)) returns a value equal to v.
C1_RoundTripSimple ==
  (pc = "decoded" /\ data.t = "dict" /\ ~HasTabular(data))
    => out.t = "ok" /\ PyEq(out.v, data)

\* C2: for a list v of 2 or more objects with the same non-empty key set and
\* primitive field values, decode(encode({"users": v})) returns {"users": v}.
C2_RoundTripTabular ==
  (pc = "decoded" /\ data.t = "dict"
     /\ \E arr \in Arrays :
          /\ data = Users(arr)
          /\ TabularEligible(arr)
          /\ Len(arr[1].v) >= 1
          /\ \A i \in 1..Len(arr) : \A j \in 1..Len(arr[i].v) :
               IsPrimitive(arr[i].v[j][2]))
    => out.t = "ok" /\ PyEq(out.v, data)

\* The array a value of the model puts under the key users, the number of
\* lines its rendering is preceded by, and the lines of the rendering.
UsersArray == IF data.v[1][1] = kUsers THEN data.v[1][2].v ELSE data.v[1][2].v[1][2].v

IsUsers ==
  /\ data.t = "dict"
  /\ Len(data.v) = 1
  /\ \/ data.v[1][1] = kUsers
     \/ data.v[1][1] = <<"o">>

Skip == IF data.v[1][1] = kUsers THEN 0 ELSE 1

ToonLines == Split(toon.v, "\n")

\* key[n], the start of every array member line
ArrayHead == kUsers \o <<"[">> \o IntToStr(Len(UsersArray)) \o <<"]">>

\* the array member line without its indentation starts with key[n] followed
\* by the character c
MemberLineHas(c) ==
  LET line == LStrip(ToonLines[Skip + 1])
      h == ArrayHead
  IN /\ Len(line) > Len(h)
     /\ SubSeq(line, 1, Len(h)) = h
     /\ line[Len(h) + 1] = c

\* the text encode gives a primitive field value
CellText(v) ==
  IF v.t = "int" THEN IntToStr(v.v)
  ELSE IF v.t = "str" THEN v.v
  ELSE <<>>

\* C6: the rendering of a tabular array of n objects under a key is the
\* header key[n]{f1,...,fk}: with the first element's keys in insertion
\* order, followed by exactly n rows in array order, each the element's
\* values comma-joined in header field order.
C6_TabularRendering ==
  (pc # "value" /\ IsUsers /\ TabularEligible(UsersArray)) =>
    LET arr == UsersArray
        f == [j \in 1..Len(arr[1].v) |-> arr[1].v[j][1]]
        Cell(item, k) ==
          CellText(item.v[CHOOSE j \in 1..Len(item.v) : item.v[j][1] = k][2])
    IN
    /\ toon.t = "ok"
    /\ Len(ToonLines) = Skip + 1 + Len(arr)
    /\ LStrip(ToonLines[Skip + 1])
         = ArrayHead \o <<"{">> \o Join(f, ",") \o <<"}", ":">>
    /\ \A r \in 1..Len(arr) :
         LStrip(ToonLines[Skip + 1 + r])
           = Join([j \in 1..Len(f) |-> Cell(arr[r], f[j])], ",")

\* two objects whose keys x and y were inserted in opposite orders were
\* rendered as a table
C6_Witness ==
  /\ pc = "text"
  /\ IsUsers
  /\ Len(UsersArray) = 2
  /\ TabularEligible(UsersArray)
  /\ Len(UsersArray[1].v) = 2
  /\ UsersArray[1].v[1][1] = kX
  /\ UsersArray[2].v[1][1] = kY
  /\ MemberLineHas("{")

\* C7: an array under a key is rendered as a table exactly when it has 2 or
\* more elements, all objects, all with the first element's key set; any
\* other array that encode renders gets the simple or multi-line form
\* key[n]: ...
C7_TabularChoice ==
  (pc # "value" /\ IsUsers) =>
    /\ TabularEligible(UsersArray) => (toon.t = "ok" /\ MemberLineHas("{"))
    /\ (~TabularEligible(UsersArray) /\ toon.t = "ok") => MemberLineHas(":")

\* an array whose second object lacks a key of the first was rendered, and
\* not as a table
C7_Witness ==
  /\ pc = "text"
  /\ IsUsers
  /\ Len(UsersArray) = 2
  /\ UsersArray[1].t = "dict"
  /\ UsersArray[2].t = "dict"
  /\ Len(UsersArray[1].v) = 2
  /\ Len(UsersArray[2].v) = 1
  /\ MemberLineHas(":")

\* s with a backslash put before every backslash and every double quote
RECURSIVE Escaped(_)
Escaped(s) ==
  IF s = <<>> THEN <<>>
  ELSE (IF s[1] \in {"\\", "\""} THEN <<"\\", s[1]>> ELSE <<s[1]>>) \o Escaped(Tail(s))

\* s is empty, contains one of , : [ ] { } newline tab, or starts or ends
\* with whitespace
MustQuote(s) ==
  \/ s = <<>>
  \/ \E i \in 1..Len(s) : s[i] \in {",", ":", "[", "]", "{", "}", "\n", "\t"}
  \/ s[1] \in {" ", "\t", "\n"}
  \/ s[Len(s)] \in {" ", "\t", "\n"}

\* C8: a string that must be quoted is encoded as the string in double
\* quotes with every backslash and double quote escaped, and parsing that
\* token as a primitive gives the string back; any other string is encoded
\* as itself.
C8_QuotingRoundTrip ==
  (pc = "parsed" /\ data.t = "str") =>
    IF MustQuote(data.v)
      THEN /\ toon.v = <<"\"">> \o Escaped(data.v) \o <<"\"">>
           /\ out.v = StrV(data.v)
      ELSE toon.v = data.v

\* the number of leading spaces of a line
LeadingSpaces(line) == Len(line) - Len(LStrip(line))

\* C11: with the indent unit u the second argument of encode, a member at
\* nesting depth d is rendered with exactly d * u leading spaces: in
\* {"users": arr} the member users is at depth 0, in {"o": {"users": arr}}
\* the member o is at depth 0 and the member users at depth 1.
C11_IndentUnit ==
  (pc = "text" /\ IsUsers /\ unit >= 1) =>
    /\ LeadingSpaces(ToonLines[1]) = 0 * unit
    /\ Skip = 1 => LeadingSpaces(ToonLines[2]) = 1 * unit

\* the errors decode raises before it parses any line (decoder.py:27, 36)
RootErrors == {"Empty TOON string", "Invalid TOON format"}

\* C12: every TOONDecodeError raised while the lines are parsed (member line
\* without ":", malformed or wrong-arity row, fewer rows than declared,
\* unterminated object or array) carries a 1-based line number of the text.
C12_ErrorsCarryLine ==
  (pc = "decoded" /\ out.t = "TOONDecodeError" /\ out.msg \notin RootErrors) =>
    out.line \in 1..(Len(Lines(toon.v)) + 1)

\* the lines of an object whose members are nested objects and one primitive
NestLines == {<<"a", ":", " ", "{">>, <<"}">>, <<"b", ":", " ", "1">>}

\* an object-rooted text made of such lines only
PlainNested(text) ==
  LET ls == Lines(text)
  IN /\ Len(ls) >= 2
     /\ ls[1] = <<"{">>
     /\ \A i \in 2..Len(ls) : Strip(ls[i]) \in NestLines

\* The value the text denotes, read with a stack of the open objects: a
\* member line goes to the innermost open object, "key: {" opens an object,
\* "}" closes the innermost one and adds it to the object that encloses it.
RECURSIVE NestScan(_, _, _)
NestScan(ls, i, stack) ==
  IF i > Len(ls) THEN [t |-> "open"]
  ELSE
    LET c == Strip(ls[i])
        n == Len(stack)
    IN
    IF c = <<"}">>
      THEN IF n = 1 THEN Ret(DictV(stack[1]), i - 1)
           ELSE NestScan(ls, i + 1,
                  SubSeq(stack, 1, n - 2)
                    \o <<DictSet(stack[n - 1], <<"a">>, DictV(stack[n]))>>)
    ELSE IF c = <<"a", ":", " ", "{">>
      THEN NestScan(ls, i + 1, Append(stack, <<>>))
    ELSE NestScan(ls, i + 1,
           SubSeq(stack, 1, n - 1) \o <<DictSet(stack[n], <<"b">>, IntV(1))>>)

\* C13: after a member "key: {" the enclosing object resumes on the line
\* after the nested object's "}": every "}" closes the innermost open
\* object, later members go to the enclosing object, and the text decodes
\* to the value its nesting denotes, ending at the root's own "}".
C13_NestedResume ==
  (pc = "decoded" /\ PlainNested(toon.v)) =>
    LET e == NestScan(Lines(toon.v), 2, <<<<>>>>)
    IN IF e.t = "ok" THEN out = e ELSE out.t = "TOONDecodeError"

\* a member follows a nested object and lands in the root
C13_Witness ==
  /\ pc = "decoded"
  /\ PlainNested(toon.v)
  /\ Lines(toon.v) = <<<<"{">>, <<"a", ":", " ", "{">>, <<" ", " ", "b", ":", " ", "1">>,
                       <<"}">>, <<" ", " ", "b", ":", " ", "1">>, <<"}">>>>
  /\ out.t = "ok"
  /\ out.v = DictV(<<<<<<"a">>, DictV(<<<<<<"b">>, IntV(1)>>>>)>>, <<<<"b">>, IntV(1)>>>>)

\* The element blocks of the multi-line array opened on line i - 1: the lines
\* are read with the stack of open structures, starting from <<"array">>,
\* and a block is counted for each line read while only that array is open,
\* its closing "]" excepted.  Gives the count and the line of the "]".
RECURSIVE ArrayBlocks(_, _, _, _)
ArrayBlocks(ls, i, stack, k) ==
  IF i > Len(ls) THEN [t |-> "open"]
  ELSE
    LET c == Strip(ls[i])
        n == Len(stack)
        k1 == IF n = 1 THEN k + 1 ELSE k
    IN
    IF n = 1 /\ c = <<"]">> THEN [t |-> "closed", k |-> k, at |-> i]
    ELSE ArrayBlocks(ls, i + 1, OpenStack(<<ls[i]>>, 1, stack), k1)

\* the member a of the root is a multi-line array and the root closes
\* on the line after the array's "]"
OneArrayMember(text) ==
  LET ls == Lines(text)
  IN /\ Len(ls) >= 4
     /\ ls[1] = <<"{">>
     /\ Strip(ls[2]) = <<"a", ":", " ", "[">>
     /\ LET b == ArrayBlocks(ls, 3, <<"array">>, 0)
        IN /\ b.t = "closed"
           /\ b.at + 1 = Len(ls)
           /\ ls[b.at + 1] = <<"}">>

\* C14: a multi-line array of k element blocks decodes to an array of
\* exactly k elements; a nested object block is one element and none of
\* its lines is appended as a further element.
C14_ElementBlocks ==
  (pc = "decoded" /\ OneArrayMember(toon.v) /\ out.t = "ok") =>
    /\ Len(out.v.v) = 1
    /\ out.v.v[1][2].t = "list"
    /\ Len(out.v.v[1][2].v) = ArrayBlocks(Lines(toon.v), 3, <<"array">>, 0).k

\* C16: when decode returns a value for an object-rooted text, the "}" that
\* closed the root is the last non-blank line: a text with further
\* non-blank lines after it is rejected, not decoded.
C16_AllLinesConsumed ==
  (pc = "decoded" /\ ObjectRooted(toon.v) /\ out.t = "ok") =>
    out.cur + 1 = Len(Lines(toon.v))

\* the number of backslashes that end right before position i
BackslashRun(content, i) ==
  CHOOSE n \in 0..(i - 1) :
    /\ \A j \in (i - n)..(i - 1) : content[j] = "\\"
    /\ i - n - 1 = 0 \/ content[i - n - 1] # "\\"

\* the character at i is taken literally: an odd run of backslashes escapes it
EscapedAt(content, i) == BackslashRun(content, i) % 2 = 1

\* the quotes that toggle the quote state
QuoteAt(content, i) == content[i] = "\"" /\ ~EscapedAt(content, i)

InQuotes(content, i) ==
  Cardinality({j \in 1..(i - 1) : QuoteAt(content, j)}) % 2 = 1

\* a character outside quotes that is not escaped
Structural(content, i) == ~EscapedAt(content, i) /\ ~InQuotes(content, i)

\* brackets and braces opened and not closed before position i
Depth(content, i) ==
  Cardinality({j \in 1..(i - 1) :
                 Structural(content, j) /\ content[j] \in {"[", "{"}})
  - Cardinality({j \in 1..(i - 1) :
                   Structural(content, j) /\ content[j] \in {"]", "}"}})

\* the delimiter commas: outside quotes, at depth 0
Delimiters(content) ==
  {i \in 1..Len(content) :
     content[i] = "," /\ Structural(content, i) /\ Depth(content, i) = 0}

\* the pieces of content between its delimiter commas: one more than commas
Pieces(content) ==
  LET D == Delimiters(content)
      m == Cardinality(D)
      at(k) == IF k = 0 THEN 0
               ELSE IF k = m + 1 THEN Len(content) + 1
               ELSE CHOOSE i \in D : Cardinality({j \in D : j < i}) = k - 1
  IN [k \in 1..(m + 1) |-> SubSeq(content, at(k - 1) + 1, at(k) - 1)]

\* C15: _split_array_items splits content at its delimiter commas and nowhere
\* else: with m delimiter commas it returns the m + 1 pieces between them,
\* and joining the items with "," gives back content.
C15_SplitExact ==
  pc = "split" =>
    /\ Len(out.v) = Cardinality(Delimiters(toon.v)) + 1
    /\ out.v = Pieces(toon.v)
    /\ Join(out.v, ",") = toon.v

\* the pieces without an empty last one
KeptPieces(content) ==
  LET p == Pieces(content)
  IN IF p[Len(p)] = <<>> THEN SubSeq(p, 1, Len(p) - 1) ELSE p

\* C15, amended: _split_array_items splits content at its delimiter commas
\* and nowhere else, and drops an empty last piece: it returns the m + 1
\* pieces when the text after the last delimiter comma is not empty and the
\* first m otherwise, and joining the items with "," gives back content,
\* less its final delimiter comma when the last piece was dropped.
C15_SplitKept ==
  pc = "split" =>
    LET m == Cardinality(Delimiters(toon.v))
        dropped == Pieces(toon.v)[m + 1] = <<>>
    IN /\ out.v = KeptPieces(toon.v)
       /\ Len(out.v) = IF dropped THEN m ELSE m + 1
       /\ Join(out.v, ",") =
            IF dropped /\ m >= 1
              THEN SubSeq(toon.v, 1, Len(toon.v) - 1)
              ELSE toon.v

\* a comma inside brackets is kept, the comma after them splits, and the
\* empty last piece is dropped
C15_Witness ==
  /\ pc = "split"
  /\ toon.v = <<"[", ",", "]", ",">>
  /\ Delimiters(toon.v) = {4}
  /\ out.v = <<<<"[", ",", "]">>>>

====
